---- MODULE Spec2Model ----
(***************************************************************************)
(* Model of trading-platform/rust-orderbook-core/src/lib.rs: the          *)
(* per-symbol OrderBook (bids, asks, orders index, best-price summary,     *)
(* trade id allocator) and the TradingEngine registry around it.           *)
(*                                                                         *)
(* Numbers.  Prices are f64 in the source and the tick is 1/10000 of a     *)
(* price unit.  Here a price is an integer count of sub-tick steps, with   *)
(* SubTick steps to one tick, so that prices which are not multiples of    *)
(* the tick exist.  Quantities are f64 in the source; here a quantity is   *)
(* an integer count of 1/QtyScale of a whole unit, so that fills which     *)
(* are not whole units exist and the `as u64` truncation is visible.       *)
(* Timestamps (now()) and user_id are carried by the source but never      *)
(* read by it; they are left out.                                          *)
(*                                                                         *)
(* Specifications.                                                         *)
(*   Spec, AnySpec, EngineSpec: the operations of TradingEngine run one    *)
(*     at a time, each to its end; every operation of a DashMap (iter,     *)
(*     insert, remove, entry) is the operation on the map it holds.        *)
(*     Spec takes the inputs the interface defines (positive quantities    *)
(*     and prices) on one symbol, AnySpec any numbers, EngineSpec two      *)
(*     symbols.                                                            *)
(*   ConcSpec, FairConcSpec: place_order calls on threads, one step per    *)
(*     access to the book's maps, with the shard locks that the entries    *)
(*     collected from a DashMap keep.                                      *)
(***************************************************************************)
EXTENDS Integers, Sequences, FiniteSets, TLC

\* ---------------------------------------------------------------- bounds
MaxOrders == 3
MaxQty == 2
MaxPrice == 4
SubTick == 2
QtyScale == 2
MaxEngineOrders == 4
MaxConcOrders == 3
NumThreads == 2

\* f64::MAX, the "unset" value of best_ask (lib.rs:112, 434, 442)
F64_MAX == 1000000

Symbols == {"X", "Y"}
Sides == {"Buy", "Sell"}
OrderTypes == {"Market", "Limit"}
Threads == 1..NumThreads

VARIABLES
    orderbooks,        \* TradingEngine.orderbooks: symbol -> OrderBook
    next_order_id,     \* TradingEngine.next_order_id
    processed_orders,  \* TradingEngine.processed_orders
    total_trades,      \* TradingEngine.total_trades
    call,              \* the operation that produced this state, with its inputs
    result,            \* what that operation returned
    last_emitted,      \* id of the last trade emitted before that operation (0: none)
    emitted_qty,       \* per symbol: the quantity of all trades its book has emitted
    pc,                \* per thread: where its place_order call stands
    local,             \* per thread: the locals of that call
    guards,            \* per thread: the map shards its collected entries keep read-locked
    maker_log          \* per resting order: the quantity it rested with, the quantity traded

threadVars == <<pc, local, guards, maker_log>>

vars == <<orderbooks, next_order_id, processed_orders, total_trades,
          call, result, last_emitted, emitted_qty, pc, local, guards, maker_log>>

\* ------------------------------------------------------------ finite maps
EmptyMap == <<>>

MapInsert(m, k, v) == [x \in DOMAIN m \cup {k} |-> IF x = k THEN v ELSE m[x]]

MapRemove(m, k) == [x \in DOMAIN m \ {k} |-> m[x]]

\* The quantity of a queue of orders (or of a list of trades).
RECURSIVE SumQty(_)
SumQty(orders) == IF orders = <<>> THEN 0 ELSE Head(orders).quantity + SumQty(Tail(orders))

\* The fill quantity taken to be the aggressor's remaining quantity.
Min2_First(a, b) == a

Min2(a, b) == IF a <= b THEN a ELSE b

RECURSIVE SortAsc(_)
SortAsc(S) ==
    IF S = {} THEN <<>>
    ELSE LET m == CHOOSE x \in S : \A y \in S : x <= y
         IN  <<m>> \o SortAsc(S \ {m})

RECURSIVE SortDesc(_)
SortDesc(S) ==
    IF S = {} THEN <<>>
    ELSE LET m == CHOOSE x \in S : \A y \in S : x >= y
         IN  <<m>> \o SortDesc(S \ {m})

\* ------------------------------------------------------------- OrderBook
\* OrderBook::new
NewBook ==
    [ bids          |-> EmptyMap,
      asks          |-> EmptyMap,
      orders        |-> EmptyMap,
      next_trade_id |-> 1,
      total_volume  |-> 0,
      last_price    |-> 0,
      best_bid      |-> 0,
      best_ask      |-> F64_MAX ]

\* (price * 10000.0) as u64: the cast truncates toward zero and saturates,
\* so every price <= 0 gives key 0.
price_to_key(price) == IF price <= 0 THEN 0 ELSE price \div SubTick

key_to_price(key) == key * SubTick

\* trade_qty as u64
as_u64(q) == IF q <= 0 THEN 0 ELSE q \div QtyScale

\* Order::new
NewOrder(id, side, order_type, quantity, price) ==
    [ id |-> id, side |-> side, order_type |-> order_type,
      quantity |-> quantity, price |-> price ]

\* A Trade priced at the aggressor's own limit.
NewTrade_TakerPrice(id, symbol, order, maker, price, qty) ==
    [ id            |-> id,
      symbol        |-> symbol,
      buy_order_id  |-> IF order.side = "Buy" THEN order.id ELSE maker.id,
      sell_order_id |-> IF order.side = "Buy" THEN maker.id ELSE order.id,
      price         |-> order.price,
      quantity      |-> qty ]

\* The Trade pushed for one fill of the aggressor `order` against `maker`.
NewTrade(id, symbol, order, maker, price, qty) ==
    [ id            |-> id,
      symbol        |-> symbol,
      buy_order_id  |-> IF order.side = "Buy" THEN order.id ELSE maker.id,
      sell_order_id |-> IF order.side = "Buy" THEN maker.id ELSE order.id,
      price         |-> price,
      quantity      |-> qty ]

\* if sell_order.quantity > 0.0 { new_level.push(..) } else { self.orders.remove(..) }:
\* what the fill does to the orders index (`left` is the maker after the fill).
RemoveFilled_Never(orders, left) == orders

RemoveFilled(orders, left) ==
    IF left.quantity > 0 THEN orders ELSE MapRemove(orders, left.id)

\* The inner loop over one level (for mut sell_order in orders_at_level.drain(..)).
\* st = [book, remaining, trades, new_level]; `level` is what is left to drain.
RECURSIVE DrainLevel(_, _, _, _, _)
DrainLevel(level, st, order, symbol, price) ==
    IF level = <<>> THEN st
    ELSE
      LET maker == Head(level) IN
      IF st.remaining <= 0
      THEN DrainLevel(Tail(level),
                      [st EXCEPT !.new_level = Append(@, maker)],
                      order, symbol, price)
      ELSE
        LET trade_qty == Min2(st.remaining, maker.quantity)
            left      == [maker EXCEPT !.quantity = @ - trade_qty]
            b         == st.book
            b1        == [b EXCEPT !.next_trade_id = @ + 1,
                                   !.last_price    = price,
                                   !.total_volume  = @ + as_u64(trade_qty),
                                   !.orders        = RemoveFilled(@, left)]
        IN DrainLevel(Tail(level),
                      [ book      |-> b1,
                        remaining |-> st.remaining - trade_qty,
                        trades    |-> Append(st.trades,
                                        NewTrade(b.next_trade_id, symbol, order,
                                                 maker, price, trade_qty)),
                        new_level |-> IF left.quantity > 0
                                      THEN Append(st.new_level, left)
                                      ELSE st.new_level ],
                      order, symbol, price)

\* The opposite side of the aggressor: the map it walks.
OppositeOf(book, order) == IF order.side = "Buy" THEN book.asks ELSE book.bids

\* The level written back whatever is left of it.
WriteLevel_AlwaysInsert(book, order, key, new_level) ==
    IF order.side = "Buy"
    THEN [book EXCEPT !.asks = MapInsert(@, key, new_level)]
    ELSE [book EXCEPT !.bids = MapInsert(@, key, new_level)]

\* self.asks.remove(&price_key) / self.asks.insert(price_key, new_level)
WriteLevel(book, order, key, new_level) ==
    IF order.side = "Buy"
    THEN [book EXCEPT !.asks = IF new_level = <<>> THEN MapRemove(@, key)
                               ELSE MapInsert(@, key, new_level)]
    ELSE [book EXCEPT !.bids = IF new_level = <<>> THEN MapRemove(@, key)
                               ELSE MapInsert(@, key, new_level)]

\* The price test with its comparisons the other way round.
PriceStops_Reversed(order, key) ==
    /\ order.order_type = "Limit"
    /\ IF order.side = "Buy"
       THEN key_to_price(key) < order.price
       ELSE key_to_price(key) > order.price

\* The limit variants' price test: it compares the level's price with the
\* order's own (unquantized) price.
PriceStops(order, key) ==
    /\ order.order_type = "Limit"
    /\ IF order.side = "Buy"
       THEN key_to_price(key) > order.price
       ELSE key_to_price(key) < order.price

\* The outer loop over the sorted entries of the opposite side.
\* st = [book, remaining, trades].
RECURSIVE WalkLevels(_, _, _, _)
WalkLevels(keys, st, order, symbol) ==
    IF keys = <<>> THEN st
    ELSE
      LET key == Head(keys) IN
      IF PriceStops(order, key) \/ st.remaining <= 0 THEN st
      ELSE
        LET d == DrainLevel(OppositeOf(st.book, order)[key],
                            [ book |-> st.book, remaining |-> st.remaining,
                              trades |-> st.trades, new_level |-> <<>> ],
                            order, symbol, key_to_price(key))
        IN WalkLevels(Tail(keys),
                      [ book      |-> WriteLevel(d.book, order, key, d.new_level),
                        remaining |-> d.remaining,
                        trades    |-> d.trades ],
                      order, symbol)

\* "Add remaining quantity to order book", first half:
\* self.orders.insert(remaining_order.id, remaining_order.clone()).
IndexOrder(book, rest) == [book EXCEPT !.orders = MapInsert(@, rest.id, rest)]

\* Second half: self.bids.entry(price_key).or_insert_with(SmallVec::new),
\* then level.push(remaining_order): the tail of the level on the order's own side.
PushOwn_Front(book, rest) ==
    LET key   == price_to_key(rest.price)
        own   == IF rest.side = "Buy" THEN book.bids ELSE book.asks
        level == IF key \in DOMAIN own THEN own[key] ELSE <<>>
        grown == MapInsert(own, key, <<rest>> \o level)
    IN IF rest.side = "Buy" THEN [book EXCEPT !.bids = grown]
                            ELSE [book EXCEPT !.asks = grown]

PushOwn(book, rest) ==
    LET key   == price_to_key(rest.price)
        own   == IF rest.side = "Buy" THEN book.bids ELSE book.asks
        level == IF key \in DOMAIN own THEN own[key] ELSE <<>>
        grown == MapInsert(own, key, Append(level, rest))
    IN IF rest.side = "Buy" THEN [book EXCEPT !.bids = grown]
                            ELSE [book EXCEPT !.asks = grown]

RestOrder(book, order, remaining) ==
    LET rest == [order EXCEPT !.quantity = remaining]
    IN  PushOwn(IndexOrder(book, rest), rest)

StartWalk(book, order) == [ book |-> book, remaining |-> order.quantity, trades |-> <<>> ]

\* A market buy that walks the asks from the highest price down.
match_market_buy_Descending(book, order, symbol) ==
    LET w == WalkLevels(SortDesc(DOMAIN book.asks), StartWalk(book, order), order, symbol)
    IN  [ book |-> w.book, trades |-> w.trades ]

\* A market buy whose unfilled remainder is put into the book.
match_market_buy_Resting(book, order, symbol) ==
    LET w == WalkLevels(SortAsc(DOMAIN book.asks), StartWalk(book, order), order, symbol)
    IN  [ book   |-> IF w.remaining > 0 THEN RestOrder(w.book, order, w.remaining)
                     ELSE w.book,
          trades |-> w.trades ]

match_market_buy(book, order, symbol) ==
    LET w == WalkLevels(SortAsc(DOMAIN book.asks), StartWalk(book, order), order, symbol)
    IN  [ book |-> w.book, trades |-> w.trades ]

match_market_sell(book, order, symbol) ==
    LET w == WalkLevels(SortDesc(DOMAIN book.bids), StartWalk(book, order), order, symbol)
    IN  [ book |-> w.book, trades |-> w.trades ]

match_limit_buy(book, order, symbol) ==
    LET w == WalkLevels(SortAsc(DOMAIN book.asks), StartWalk(book, order), order, symbol)
    IN  [ book   |-> IF w.remaining > 0 THEN RestOrder(w.book, order, w.remaining)
                     ELSE w.book,
          trades |-> w.trades ]

match_limit_sell(book, order, symbol) ==
    LET w == WalkLevels(SortDesc(DOMAIN book.bids), StartWalk(book, order), order, symbol)
    IN  [ book   |-> IF w.remaining > 0 THEN RestOrder(w.book, order, w.remaining)
                     ELSE w.book,
          trades |-> w.trades ]

MaxKey(m) == CHOOSE k \in DOMAIN m : \A j \in DOMAIN m : j <= k

MinKey(m) == CHOOSE k \in DOMAIN m : \A j \in DOMAIN m : k <= j

update_best_prices(book) ==
    [book EXCEPT
        !.best_bid = IF DOMAIN book.bids # {} THEN key_to_price(MaxKey(book.bids)) ELSE 0,
        !.best_ask = IF DOMAIN book.asks # {} THEN key_to_price(MinKey(book.asks))
                     ELSE F64_MAX]

add_order(book, order, symbol) ==
    LET m == IF order.side = "Buy"
             THEN IF order.order_type = "Market"
                  THEN match_market_buy(book, order, symbol)
                  ELSE match_limit_buy(book, order, symbol)
             ELSE IF order.order_type = "Market"
                  THEN match_market_sell(book, order, symbol)
                  ELSE match_limit_sell(book, order, symbol)
    IN  [ book   |-> IF order.id \in DOMAIN m.book.orders
                     THEN update_best_prices(m.book) ELSE m.book,
          trades |-> m.trades ]

get_spread(book) ==
    IF book.best_ask = F64_MAX \/ book.best_bid = 0 THEN 0
    ELSE book.best_ask - book.best_bid

\* --------------------------------------------------------- TradingEngine
NoCall == [ op |-> "new" ]

NoLocal == [ order |-> "none" ]

\* result.trades is the Vec<Trade> the call built (what it emitted);
\* result.returned is the String handed back to the caller.
NoResult == [ returned |-> "none", trades |-> <<>> ]

\* serde_wasm_bindgen::to_value(&trades).unwrap().as_string().unwrap_or_default():
\* the JsValue of a Vec is an array, as_string() of an array is None, and the
\* default String is empty, whatever the trades are.
TradesString(trades) == ""

SymbolNotFound == "Error: Symbol not found"

\* TradingEngine::new
Init ==
    /\ orderbooks = EmptyMap
    /\ next_order_id = 1
    /\ processed_orders = 0
    /\ total_trades = 0
    /\ call = NoCall
    /\ result = NoResult
    /\ last_emitted = 0
    /\ emitted_qty = EmptyMap
    /\ pc = [t \in Threads |-> "idle"]
    /\ local = [t \in Threads |-> NoLocal]
    /\ guards = [t \in Threads |-> {}]
    /\ maker_log = EmptyMap

\* The id of the last trade of a returned list, or `before` when it is empty.
LastId(trades, before) == IF trades = <<>> THEN before ELSE trades[Len(trades)].id

AddSymbol(symbol) ==
    /\ orderbooks' = MapInsert(orderbooks, symbol, NewBook)
    /\ call' = [ op |-> "add_symbol", symbol |-> symbol ]
    /\ result' = [ returned |-> "void", trades |-> <<>> ]
    /\ last_emitted' = LastId(result.trades, last_emitted)
    /\ emitted_qty' = MapInsert(emitted_qty, symbol, 0)
    /\ UNCHANGED <<next_order_id, processed_orders, total_trades>>
    /\ UNCHANGED threadVars

\* place_order with the order id drawn before the book is looked up.
PlaceOrder_IdBeforeLookup(symbol, side, order_type, quantity, price, cap) ==
    /\ next_order_id <= cap
    /\ call' = [ op |-> "place_order", symbol |-> symbol, side |-> side,
                 order_type |-> order_type, quantity |-> quantity, price |-> price ]
    /\ last_emitted' = LastId(result.trades, last_emitted)
    /\ UNCHANGED threadVars
    /\ next_order_id' = next_order_id + 1
    /\ IF symbol \in DOMAIN orderbooks
       THEN LET order == NewOrder(next_order_id, side, order_type, quantity, price)
                r     == add_order(orderbooks[symbol], order, symbol)
            IN  /\ orderbooks' = [orderbooks EXCEPT ![symbol] = r.book]
                /\ processed_orders' = processed_orders + 1
                /\ total_trades' = total_trades + Len(r.trades)
                /\ emitted_qty' = [emitted_qty EXCEPT ![symbol] = @ + SumQty(r.trades)]
                /\ result' = [ returned |-> TradesString(r.trades), trades |-> r.trades ]
       ELSE /\ result' = [ returned |-> SymbolNotFound, trades |-> <<>> ]
            /\ UNCHANGED <<orderbooks, processed_orders, total_trades, emitted_qty>>

PlaceOrder(symbol, side, order_type, quantity, price, cap) ==
    /\ next_order_id <= cap
    /\ call' = [ op |-> "place_order", symbol |-> symbol, side |-> side,
                 order_type |-> order_type, quantity |-> quantity, price |-> price ]
    /\ last_emitted' = LastId(result.trades, last_emitted)
    /\ UNCHANGED threadVars
    /\ IF symbol \in DOMAIN orderbooks
       THEN LET order == NewOrder(next_order_id, side, order_type, quantity, price)
                r     == add_order(orderbooks[symbol], order, symbol)
            IN  /\ next_order_id' = next_order_id + 1
                /\ orderbooks' = [orderbooks EXCEPT ![symbol] = r.book]
                /\ processed_orders' = processed_orders + 1
                /\ total_trades' = total_trades + Len(r.trades)
                /\ emitted_qty' = [emitted_qty EXCEPT ![symbol] = @ + SumQty(r.trades)]
                /\ result' = [ returned |-> TradesString(r.trades), trades |-> r.trades ]
       ELSE /\ result' = [ returned |-> SymbolNotFound, trades |-> <<>> ]
            /\ UNCHANGED <<orderbooks, next_order_id, processed_orders, total_trades,
                           emitted_qty>>

\* Inputs the interface defines: positive quantities and positive prices.
Quantities == 1..MaxQty

Prices == 1..MaxPrice

\* A market order's price argument is passed and never read; 0 stands for it.
PricesOf(order_type) == IF order_type = "Limit" THEN Prices ELSE {0}

Submit ==
    \E side \in Sides, order_type \in OrderTypes, quantity \in Quantities :
      \E price \in PricesOf(order_type) :
        PlaceOrder("X", side, order_type, quantity, price, MaxOrders)

Register == AddSymbol("X")

Next == Register \/ Submit

Spec == Init /\ [][Next]_vars

\* Unvalidated inputs: place_order takes any f64 quantity and price.
AnyQuantities == (-1)..MaxQty

AnyPrices == (-1)..MaxPrice

AnyPricesOf(order_type) == IF order_type = "Limit" THEN AnyPrices ELSE {0}

SubmitAny ==
    \E side \in Sides, order_type \in OrderTypes, quantity \in AnyQuantities :
      \E price \in AnyPricesOf(order_type) :
        PlaceOrder("X", side, order_type, quantity, price, MaxOrders)

NextAny == Register \/ SubmitAny

AnySpec == Init /\ [][NextAny]_vars

\* Two symbols, each registered once; one quantity unit and one tick apart.
RegisterNew == \E symbol \in Symbols : symbol \notin DOMAIN orderbooks /\ AddSymbol(symbol)

SubmitEngine ==
    \E symbol \in Symbols, side \in Sides, order_type \in OrderTypes :
      \E price \in IF order_type = "Limit" THEN {SubTick, 2 * SubTick} ELSE {0} :
        PlaceOrder(symbol, side, order_type, QtyScale, price, MaxEngineOrders)

NextEngine == RegisterNew \/ SubmitEngine

EngineSpec == Init /\ [][NextEngine]_vars

\* ------------------------------------------------- calls on threads
\* place_order on the book of "X", one step per access to the book's maps.
\* DashMap: iter() yields entries (RefMulti) that each keep the read lock of
\* their shard for as long as they live; insert, remove and entry take the
\* write lock of the key's shard, which is granted only when nobody holds a
\* lock on that shard.  The shard of a key is taken to be the key itself:
\* the finest sharding a map can have, so that no blocking comes from two
\* keys sharing a shard.  The fills of one level are one step.
ShardOf(map, key) == <<map, key>>

OppositeMap(order) == IF order.side = "Buy" THEN "asks" ELSE "bids"

OwnMap(order) == IF order.side = "Buy" THEN "bids" ELSE "asks"

NoPending == [ kind |-> "none" ]

\* The write lock of a shard: no entry of any call (the caller's own
\* included) keeps it read-locked.
CanWrite(shard) == \A u \in Threads : shard \notin guards[u]

\* place_order up to Order::new: the book is looked up (the Ref to it is
\* held until the call returns) and the order id is drawn.
Begin(t, side, order_type, quantity, price) ==
    /\ pc[t] = "idle"
    /\ "X" \in DOMAIN orderbooks
    /\ next_order_id <= MaxConcOrders
    /\ next_order_id' = next_order_id + 1
    /\ local' = [local EXCEPT ![t] =
                    [ order     |-> NewOrder(next_order_id, side, order_type,
                                             quantity, price),
                      keys      |-> <<>>,
                      remaining |-> quantity,
                      trades    |-> <<>>,
                      pending   |-> NoPending ]]
    /\ pc' = [pc EXCEPT ![t] = "collect"]
    /\ UNCHANGED <<orderbooks, processed_orders, total_trades, call, result,
                   last_emitted, emitted_qty, guards, maker_log>>

\* let mut sorted_asks: Vec<_> = self.asks.iter().collect(); sorted_asks.sort_by(..)
Collect(t) ==
    /\ pc[t] = "collect"
    /\ LET o    == local[t].order
           opp  == OppositeOf(orderbooks["X"], o)
           keys == IF o.side = "Buy" THEN SortAsc(DOMAIN opp) ELSE SortDesc(DOMAIN opp)
       IN  /\ local' = [local EXCEPT ![t].keys = keys]
           /\ guards' = [guards EXCEPT ![t] =
                            {ShardOf(OppositeMap(o), k) : k \in DOMAIN opp}]
    /\ pc' = [pc EXCEPT ![t] = "walk"]
    /\ UNCHANGED <<orderbooks, next_order_id, processed_orders, total_trades,
                   call, result, last_emitted, emitted_qty, maker_log>>

\* The quantity traded against each maker, after `trades` more fills.
RECURSIVE LogTrades(_, _, _)
LogTrades(log, trades, order) ==
    IF trades = <<>> THEN log
    ELSE LET tr == Head(trades)
             mk == IF order.side = "Buy" THEN tr.sell_order_id ELSE tr.buy_order_id
         IN  LogTrades([log EXCEPT ![mk].traded = @ + tr.quantity], Tail(trades), order)

\* One turn of the loop over the collected entries, up to the write of the
\* level: the two break tests, the clone of the level, its fills.  When the
\* loop ends the collected entries are dropped, and their read locks with them.
Level(t) ==
    /\ pc[t] = "walk"
    /\ LET l == local[t]
           o == l.order
           b == orderbooks["X"]
       IN  IF l.keys = <<>> \/ PriceStops(o, Head(l.keys)) \/ l.remaining <= 0
           THEN /\ guards' = [guards EXCEPT ![t] = {}]
                /\ pc' = [pc EXCEPT ![t] = "rest"]
                /\ UNCHANGED <<orderbooks, local, maker_log, emitted_qty>>
           ELSE LET key == Head(l.keys)
                    d   == DrainLevel(OppositeOf(b, o)[key],
                                      [ book |-> b, remaining |-> l.remaining,
                                        trades |-> <<>>, new_level |-> <<>> ],
                                      o, "X", key_to_price(key))
                IN  /\ orderbooks' = [orderbooks EXCEPT !["X"] = d.book]
                    /\ local' = [local EXCEPT
                                   ![t].remaining = d.remaining,
                                   ![t].trades    = l.trades \o d.trades,
                                   ![t].pending   = [ kind |-> "level", key |-> key,
                                                      new_level |-> d.new_level ]]
                    /\ maker_log' = LogTrades(maker_log, d.trades, o)
                    /\ emitted_qty' = [emitted_qty EXCEPT !["X"] = @ + SumQty(d.trades)]
                    /\ pc' = [pc EXCEPT ![t] = "write"]
                    /\ UNCHANGED guards
    /\ UNCHANGED <<next_order_id, processed_orders, total_trades, call, result,
                   last_emitted>>

\* "Add remaining quantity to order book": the order is indexed, and the
\* push on its own side is the next write.
Rest(t) ==
    /\ pc[t] = "rest"
    /\ LET l == local[t]
           o == l.order
       IN  IF o.order_type = "Limit" /\ l.remaining > 0
           THEN LET rest == [o EXCEPT !.quantity = l.remaining]
                IN  /\ orderbooks' = [orderbooks EXCEPT
                                        !["X"] = IndexOrder(@, rest)]
                    /\ local' = [local EXCEPT
                                   ![t].pending = [ kind |-> "rest",
                                                    key  |-> price_to_key(o.price),
                                                    rest |-> rest ]]
                    /\ pc' = [pc EXCEPT ![t] = "write"]
           ELSE /\ pc' = [pc EXCEPT ![t] = "finish"]
                /\ UNCHANGED <<orderbooks, local>>
    /\ UNCHANGED <<next_order_id, processed_orders, total_trades, call, result,
                   last_emitted, emitted_qty, guards, maker_log>>

\* A write to a side map: the level written back at the end of a turn of
\* the loop (remove or insert), or the push of the resting order (entry).
MapWrite(t) ==
    /\ pc[t] = "write"
    /\ LET l == local[t]
           o == l.order
           p == l.pending
       IN  IF p.kind = "level"
           THEN /\ CanWrite(ShardOf(OppositeMap(o), p.key))
                /\ orderbooks' = [orderbooks EXCEPT
                                    !["X"] = WriteLevel(@, o, p.key, p.new_level)]
                /\ guards' = [guards EXCEPT
                                ![t] = @ \ {ShardOf(OppositeMap(o), p.key)}]
                /\ local' = [local EXCEPT ![t].keys = Tail(@),
                                          ![t].pending = NoPending]
                /\ pc' = [pc EXCEPT ![t] = "walk"]
                /\ UNCHANGED maker_log
           ELSE /\ CanWrite(ShardOf(OwnMap(o), p.key))
                /\ orderbooks' = [orderbooks EXCEPT !["X"] = PushOwn(@, p.rest)]
                /\ maker_log' = MapInsert(maker_log, o.id,
                                   [ rested |-> p.rest.quantity, traded |-> 0 ])
                /\ local' = [local EXCEPT ![t].pending = NoPending]
                /\ pc' = [pc EXCEPT ![t] = "finish"]
                /\ UNCHANGED guards
    /\ UNCHANGED <<next_order_id, processed_orders, total_trades, call, result,
                   last_emitted, emitted_qty>>

\* The end of add_order (update_best_prices when the order is indexed) and
\* of place_order (the two counters); the call returns.
Finish(t) ==
    /\ pc[t] = "finish"
    /\ LET l == local[t]
           b == orderbooks["X"]
       IN  /\ orderbooks' = [orderbooks EXCEPT
                               !["X"] = IF l.order.id \in DOMAIN b.orders
                                        THEN update_best_prices(b) ELSE b]
           /\ total_trades' = total_trades + Len(l.trades)
    /\ processed_orders' = processed_orders + 1
    /\ local' = [local EXCEPT ![t] = NoLocal]
    /\ pc' = [pc EXCEPT ![t] = "idle"]
    /\ UNCHANGED <<next_order_id, call, result, last_emitted, emitted_qty, guards, maker_log>>

\* add_symbol("X"): orderbooks.insert takes the write lock of the shard of
\* "X", which every call in flight on "X" keeps read-locked through its Ref.
RegisterConc ==
    /\ \A t \in Threads : pc[t] = "idle"
    /\ "X" \notin DOMAIN orderbooks
    /\ AddSymbol("X")

Step(t) == Collect(t) \/ Level(t) \/ Rest(t) \/ MapWrite(t) \/ Finish(t)

BeginAny(t) ==
    \E side \in Sides, order_type \in OrderTypes, quantity \in Quantities :
      \E price \in IF order_type = "Limit" THEN {SubTick} ELSE {0} :
        Begin(t, side, order_type, quantity, price)

NextConc == RegisterConc \/ \E t \in Threads : BeginAny(t) \/ Step(t)

ConcSpec == Init /\ [][NextConc]_vars

\* Every call runs on its caller's thread and is scheduled while it can step.
FairConcSpec == ConcSpec /\ \A t \in Threads : WF_vars(Step(t))

\* ------------------------------------------------------- get_orderbook
\* .take(20): the number of levels of a side a reader is shown.
DepthShown == 20

\* One entry per level of a side, in the order of `keys`:
\* (price, total_qty, entry.value().len()).
RECURSIVE LevelRows(_, _)
LevelRows(m, keys) ==
    IF keys = <<>> THEN <<>>
    ELSE <<[ price     |-> key_to_price(Head(keys)),
             total_qty |-> SumQty(m[Head(keys)]),
             len       |-> Len(m[Head(keys)]) ]>> \o LevelRows(m, Tail(keys))

Take(rows, n) == SubSeq(rows, 1, Min2(n, Len(rows)))

\* The document get_orderbook builds from a book (serde_json::json!): bids
\* by falling price, asks by rising price, and the three summary fields.
BookData(symbol, book) ==
    [ symbol       |-> symbol,
      bids         |-> Take(LevelRows(book.bids, SortDesc(DOMAIN book.bids)), DepthShown),
      asks         |-> Take(LevelRows(book.asks, SortAsc(DOMAIN book.asks)), DepthShown),
      last_price   |-> book.last_price,
      spread       |-> get_spread(book),
      total_volume |-> book.total_volume ]

\* get_orderbook(symbol), read in one step: it takes read locks only, which
\* the entries a place_order call keeps do not exclude.  result.returned is
\* the document the returned string spells out.
GetOrderbook(symbol) ==
    /\ call' = [ op |-> "get_orderbook", symbol |-> symbol ]
    /\ result' = [ returned |-> IF symbol \in DOMAIN orderbooks
                                THEN BookData(symbol, orderbooks[symbol])
                                ELSE [ error |-> "Symbol not found", symbol |-> symbol ],
                   trades   |-> <<>> ]
    /\ UNCHANGED <<orderbooks, next_order_id, processed_orders, total_trades,
                   last_emitted, emitted_qty>>
    /\ UNCHANGED threadVars

\* place_order begun while no other call is in flight; local.before keeps
\* the book as the call found it (history, read by no step of the call).
BeginAlone(t, side, order_type, quantity, price) ==
    /\ \A u \in Threads : pc[u] = "idle"
    /\ "X" \in DOMAIN orderbooks
    /\ next_order_id <= MaxConcOrders
    /\ next_order_id' = next_order_id + 1
    /\ local' = [local EXCEPT ![t] =
                    [ order     |-> NewOrder(next_order_id, side, order_type,
                                             quantity, price),
                      keys      |-> <<>>,
                      remaining |-> quantity,
                      trades    |-> <<>>,
                      pending   |-> NoPending,
                      before    |-> orderbooks["X"] ]]
    /\ pc' = [pc EXCEPT ![t] = "collect"]
    /\ UNCHANGED <<orderbooks, processed_orders, total_trades, call, result,
                   last_emitted, emitted_qty, guards, maker_log>>

BeginAloneAny(t) ==
    \E side \in Sides, order_type \in OrderTypes, quantity \in Quantities :
      \E price \in IF order_type = "Limit" THEN {SubTick} ELSE {0} :
        BeginAlone(t, side, order_type, quantity, price)

Read == GetOrderbook("X")

\* One place_order at a time on the book of "X", and a reader of that book.
NextRead == RegisterConc \/ Read \/ \E t \in Threads : BeginAloneAny(t) \/ Step(t)

ReadSpec == Init /\ [][NextRead]_vars

\* ------------------------------------------------------------ book views
Books == {orderbooks[s] : s \in DOMAIN orderbooks}

\* Every place an order sits in the level queues of a book.
Slots(book) ==
    UNION {{<<"bids", k, i>> : i \in 1..Len(book.bids[k])} : k \in DOMAIN book.bids}
    \cup
    UNION {{<<"asks", k, i>> : i \in 1..Len(book.asks[k])} : k \in DOMAIN book.asks}

OrderAt(book, slot) ==
    IF slot[1] = "bids" THEN book.bids[slot[2]][slot[3]] ELSE book.asks[slot[2]][slot[3]]

SlotsOf(book, id) == {sl \in Slots(book) : OrderAt(book, sl).id = id}

QueuedIds(book) == {OrderAt(book, sl).id : sl \in Slots(book)}

\* The quantity resting on one side of a book, over all its levels.
RECURSIVE SideTotal(_)
SideTotal(m) ==
    IF DOMAIN m = {} THEN 0
    ELSE LET k == CHOOSE x \in DOMAIN m : TRUE
         IN  SumQty(m[k]) + SideTotal(MapRemove(m, k))

\* The quantity with which order `id` sits in the level queues of a book.
RECURSIVE SumOver(_, _)
SumOver(book, slots) ==
    IF slots = {} THEN 0
    ELSE LET sl == CHOOSE x \in slots : TRUE
         IN  OrderAt(book, sl).quantity + SumOver(book, slots \ {sl})

RestingQty(book, id) == SumOver(book, SlotsOf(book, id))

\* The queue of a level, empty when the map has no such key.
LevelOf(m, key) == IF key \in DOMAIN m THEN m[key] ELSE <<>>

OwnOf(book, order) == IF order.side = "Buy" THEN book.bids ELSE book.asks

\* The resting order of a trade, seen from the aggressor's side.
MakerId(trade, side) == IF side = "Buy" THEN trade.sell_order_id ELSE trade.buy_order_id

\* The order the step's place_order call builds (Order::new with the id drawn).
Aggressor ==
    NewOrder(next_order_id, call'.side, call'.order_type, call'.quantity, call'.price)

\* The places of the opposite side where the resting order of a trade sat
\* before the call: <<key, position>>.
MakerSlots(opp, id) ==
    UNION {{<<k, p>> : p \in {q \in 1..Len(opp[k]) : opp[k][q].id = id}} : k \in DOMAIN opp}

\* Every key of a side map has a queue with an order in it, and every
\* queued order has a positive quantity.
LevelsSound(m) ==
    \A k \in DOMAIN m : /\ m[k] # <<>>
                        /\ \A i \in 1..Len(m[k]) : m[k][i].quantity > 0

\* The quantity the trades of a call took from the makers queued in `level`.
RECURSIVE TakenFrom(_, _, _)
TakenFrom(trades, level, side) ==
    IF trades = <<>> THEN 0
    ELSE (IF \E i \in 1..Len(level) : level[i].id = MakerId(Head(trades), side)
          THEN Head(trades).quantity ELSE 0)
         + TakenFrom(Tail(trades), level, side)

\* The order crosses nothing: no opposite level, or its price is strictly
\* worse than the price of the best opposite level.
CrossesNothing(book, order) ==
    LET opp == OppositeOf(book, order)
    IN  \/ DOMAIN opp = {}
        \/ order.side = "Buy"  /\ order.price < key_to_price(MinKey(opp))
        \/ order.side = "Sell" /\ order.price > key_to_price(MaxKey(opp))

\* A level of the opposite side the limit order may trade with, decided on
\* tick keys: at or below the order's own key for a Buy, at or above it
\* for a Sell.
EligibleKey(order, key) ==
    IF order.side = "Buy" THEN key <= price_to_key(order.price)
                          ELSE key >= price_to_key(order.price)

\* A step that is a place_order on a registered symbol.
PlacedStep == call'.op = "place_order" /\ call'.symbol \in DOMAIN orderbooks

\* The operation that produced this state was a place_order on a registered symbol.
Placed == call.op = "place_order" /\ result.returned # SymbolNotFound

\* ---------------------------------------------------------------- claims

\* C1: whenever a book has a bid level and an ask level, its highest bid
\* key is strictly below its lowest ask key (never crossed, never locked).
C1_NeverCrossedOrLocked ==
    \A b \in Books :
        (DOMAIN b.bids # {} /\ DOMAIN b.asks # {}) => MaxKey(b.bids) < MinKey(b.asks)

\* C2: after every add_order the stored best_bid is the price of the
\* largest bid key (0 when there is none) and the stored best_ask is the
\* price of the smallest ask key (f64::MAX when there is none); get_spread
\* reads these two stored values and nothing else.
C2_BestPricesCurrent ==
    \A b \in Books :
        /\ b.best_bid = IF DOMAIN b.bids # {} THEN key_to_price(MaxKey(b.bids)) ELSE 0
        /\ b.best_ask = IF DOMAIN b.asks # {} THEN key_to_price(MinKey(b.asks))
                        ELSE F64_MAX

\* C3: an order that is both in the orders index and in a level queue has
\* the same quantity in both.
C3_IndexQuantityAgrees ==
    \A b \in Books : \A sl \in Slots(b) :
        LET o == OrderAt(b, sl)
        IN  o.id \in DOMAIN b.orders => b.orders[o.id].quantity = o.quantity

\* C4: an order id is a key of the orders index exactly when it sits in
\* exactly one slot of the level queues of that book.
C4_IndexedIffQueuedOnce ==
    \A b \in Books :
        /\ DOMAIN b.orders = QueuedIds(b)
        /\ \A id \in DOMAIN b.orders : Cardinality(SlotsOf(b, id)) = 1

\* C4 witness: a limit order filled a maker completely (the maker is gone
\* from the index and from the queues) and rests with its residue (it is
\* indexed and queued).
C4_Witness ==
    /\ Placed
    /\ call.order_type = "Limit"
    /\ result.trades # <<>>
    /\ LET b  == orderbooks[call.symbol]
           t  == result.trades[1]
           me == IF call.side = "Buy" THEN t.buy_order_id ELSE t.sell_order_id
           mk == IF call.side = "Buy" THEN t.sell_order_id ELSE t.buy_order_id
       IN  /\ mk \notin DOMAIN b.orders
           /\ mk \notin QueuedIds(b)
           /\ me \in DOMAIN b.orders
           /\ me \in QueuedIds(b)

\* C5: the ids of the trades an engine emits are strictly increasing in
\* emission order, whichever book emits them (so no two are equal).
C5_TradeIdsIncrease ==
    \A i \in 1..Len(result.trades) :
        result.trades[i].id > IF i = 1 THEN last_emitted ELSE result.trades[i - 1].id

\* C6: add_symbol of a registered symbol leaves that symbol's book as it was.
C6_AddSymbolIdempotent ==
    [][(call'.op = "add_symbol" /\ call'.symbol \in DOMAIN orderbooks)
          => orderbooks'[call'.symbol] = orderbooks[call'.symbol]]_vars

\* C7: concurrent place_order calls on one symbol are serialized; in
\* particular the total quantity traded against a resting order never
\* exceeds the quantity it rested with.
C7_NoOverfill ==
    \A id \in DOMAIN maker_log : maker_log[id].traded <= maker_log[id].rested

\* C8: every place_order call on a registered symbol eventually returns.
C8_CallsReturn ==
    \A t \in Threads : (pc[t] # "idle") ~> (pc[t] = "idle")

\* C9: place_order with quantity <= 0 fails with InvalidOrder and changes
\* nothing: not the book, not next_order_id, not the counters.
C9_NonPositiveQuantityRejected ==
    [][(call'.op = "place_order" /\ call'.symbol \in DOMAIN orderbooks
          /\ call'.quantity <= 0)
          => /\ result'.returned = "InvalidOrder"
             /\ UNCHANGED <<orderbooks, next_order_id, processed_orders, total_trades>>]_vars

\* C10: a Limit order with price <= 0 and positive quantity never reaches
\* the book: no trade is emitted and the book is unchanged.
C10_NonPositivePriceRejected ==
    [][(call'.op = "place_order" /\ call'.symbol \in DOMAIN orderbooks
          /\ call'.order_type = "Limit" /\ call'.price <= 0 /\ call'.quantity > 0)
          => /\ result'.trades = <<>>
             /\ orderbooks' = orderbooks]_vars

\* C11: place_order for a symbol that is not registered returns the
\* symbol-not-found error and changes nothing: no book is created or
\* modified, next_order_id and the two counters keep their values.
C11_UnknownSymbolNoChange ==
    [][(call'.op = "place_order" /\ call'.symbol \notin DOMAIN orderbooks)
          => /\ result'.returned = SymbolNotFound
             /\ result'.trades = <<>>
             /\ UNCHANGED <<orderbooks, next_order_id, processed_orders, total_trades>>]_vars

\* C11 witness: an order for an unregistered symbol was refused while the
\* engine holds another symbol's book with a resting order.
C11_Witness ==
    /\ call.op = "place_order"
    /\ call.symbol \notin DOMAIN orderbooks
    /\ result.returned = SymbolNotFound
    /\ \E s \in DOMAIN orderbooks : DOMAIN orderbooks[s].orders # {}

\* C12: a submit of quantity q > 0 conserves quantity.  The trades of the
\* call and the quantity with which the order rests afterwards add up to q
\* for a Limit order; for a Market order nothing rests and the trades add
\* up to at most q (the rest of q is the discarded residue).  The resting
\* quantity of the opposite side falls by exactly the traded quantity.
C12_QuantityConserved ==
    [][(PlacedStep /\ call'.quantity > 0)
          => LET b      == orderbooks[call'.symbol]
                 b2     == orderbooks'[call'.symbol]
                 o      == NewOrder(next_order_id, call'.side, call'.order_type,
                                    call'.quantity, call'.price)
                 traded == SumQty(result'.trades)
                 rests  == RestingQty(b2, o.id)
             IN  /\ \A i \in 1..Len(result'.trades) : result'.trades[i].quantity > 0
                 /\ IF o.order_type = "Limit"
                    THEN traded + rests = o.quantity
                    ELSE rests = 0 /\ traded <= o.quantity
                 /\ SideTotal(OppositeOf(b, o)) - SideTotal(OppositeOf(b2, o)) = traded]_vars

\* C12 witness: a limit order traded part of its quantity and rests with
\* the remainder.
C12_Witness ==
    /\ Placed
    /\ call.order_type = "Limit"
    /\ result.trades # <<>>
    /\ SumQty(result.trades) < call.quantity
    /\ LET t == result.trades[1]
           me == IF call.side = "Buy" THEN t.buy_order_id ELSE t.sell_order_id
       IN  RestingQty(orderbooks[call.symbol], me) = call.quantity - SumQty(result.trades)

\* C13: within one price level matching is first in, first out.  In a
\* place_order step, what is left of an opposite level is a tail of what
\* it was, with only its head possibly reduced; a maker trades only after
\* every maker queued before it at that level has traded earlier in the
\* call and left the level; and a limit residue is appended behind all the
\* orders already at its own level.
C13_FifoWithinLevel ==
    [][(PlacedStep /\ call'.quantity > 0)
          => LET o    == Aggressor
                 b    == orderbooks[call'.symbol]
                 b2   == orderbooks'[call'.symbol]
                 tr   == result'.trades
                 opp  == OppositeOf(b, o)
                 opp2 == OppositeOf(b2, o)
                 own  == OwnOf(b, o)
                 own2 == OwnOf(b2, o)
                 rkey == price_to_key(o.price)
             IN  /\ \A k \in DOMAIN opp :
                        LET pre  == opp[k]
                            post == LevelOf(opp2, k)
                            gone == Len(pre) - Len(post)
                        IN  /\ gone >= 0
                            /\ \A i \in 1..Len(post) :
                                   /\ post[i].id = pre[gone + i].id
                                   /\ i > 1 => post[i] = pre[gone + i]
                            /\ \A p \in 1..Len(pre) : \A i \in 1..Len(tr) :
                                   MakerId(tr[i], o.side) = pre[p].id
                                      => \A j \in 1..(p - 1) :
                                            /\ \E i2 \in 1..(i - 1) :
                                                  MakerId(tr[i2], o.side) = pre[j].id
                                            /\ \A n \in 1..Len(post) : post[n].id # pre[j].id
                 /\ RestingQty(b2, o.id) > 0
                       => /\ LevelOf(own2, rkey) =
                                Append(LevelOf(own, rkey),
                                       [o EXCEPT !.quantity = RestingQty(b2, o.id)])
                          /\ \A k \in DOMAIN own : k # rkey => LevelOf(own2, k) = own[k]]_vars

\* C13 witness: one call traded with two makers of the same level in their
\* queue order; the first left the level, the second stays at its head
\* with what is left of it.
C13_Witness ==
    /\ Placed
    /\ Len(result.trades) = 2
    /\ result.trades[1].price = result.trades[2].price
    /\ LET b  == orderbooks[call.symbol]
           m1 == MakerId(result.trades[1], call.side)
           m2 == MakerId(result.trades[2], call.side)
       IN  /\ m1 < m2
           /\ m1 \notin QueuedIds(b)
           /\ \E sl \in SlotsOf(b, m2) : sl[3] = 1 /\ OrderAt(b, sl).quantity > 0

\* C14 as stated: every trade of a place_order step carries the price of
\* the resting order it matched (the price that order was submitted with).
C14_TradeAtMakerOrderPrice ==
    [][(PlacedStep /\ call'.quantity > 0)
          => LET o   == Aggressor
                 opp == OppositeOf(orderbooks[call'.symbol], o)
                 tr  == result'.trades
             IN  \A i \in 1..Len(tr) :
                    \A sl \in MakerSlots(opp, MakerId(tr[i], o.side)) :
                        tr[i].price = opp[sl[1]][sl[2]].price]_vars

\* C14, amended: every trade of a place_order step is priced at the tick
\* price of the level its maker rested in, which is the maker's submitted
\* price rounded down to the tick; a limit aggressor whose limit is
\* strictly better than that level does not trade at its own limit; and
\* last_price is the price of the call's last trade.
C14_TradeAtMakerLevelPrice ==
    [][(PlacedStep /\ call'.quantity > 0)
          => LET o   == Aggressor
                 opp == OppositeOf(orderbooks[call'.symbol], o)
                 tr  == result'.trades
             IN  /\ \A i \in 1..Len(tr) :
                        /\ MakerSlots(opp, MakerId(tr[i], o.side)) # {}
                        /\ \A sl \in MakerSlots(opp, MakerId(tr[i], o.side)) :
                               /\ tr[i].price = key_to_price(sl[1])
                               /\ tr[i].price =
                                     key_to_price(price_to_key(opp[sl[1]][sl[2]].price))
                        /\ (o.order_type = "Limit" /\ o.side = "Buy" /\ o.price > tr[i].price)
                              => tr[i].price # o.price
                        /\ (o.order_type = "Limit" /\ o.side = "Sell" /\ o.price < tr[i].price)
                              => tr[i].price # o.price
                 /\ tr # <<>>
                       => orderbooks'[call'.symbol].last_price = tr[Len(tr)].price]_vars

\* C14 witness: a limit buy above the level it trades with, against a
\* maker whose submitted price lies between two ticks and who still rests;
\* the trade and last_price carry the level's tick price.
C14_Witness ==
    /\ Placed
    /\ call.order_type = "Limit"
    /\ call.side = "Buy"
    /\ result.trades # <<>>
    /\ LET b == orderbooks[call.symbol]
           t == result.trades[Len(result.trades)]
       IN  /\ call.price > t.price
           /\ b.last_price = t.price
           /\ \E sl \in SlotsOf(b, t.sell_order_id) :
                 /\ OrderAt(b, sl).price # t.price
                 /\ key_to_price(sl[2]) = t.price

\* C15: a get_orderbook that runs while a place_order on the same symbol
\* is in flight returns the document of the book as that call found it or
\* of the book as that call leaves it (what add_order makes of the book it
\* found), never of a state in between.
C15_SnapshotBeforeOrAfter ==
    [][(call'.op = "get_orderbook" /\ UNCHANGED threadVars)
          => \A t \in Threads :
                pc[t] # "idle"
                   => result'.returned \in
                        { BookData("X", local[t].before),
                          BookData("X", add_order(local[t].before, local[t].order, "X").book) }]_vars

\* C16: a market order never rests.  After a place_order step with a
\* Market order its id is in neither the orders index nor any level, and
\* its own side of the book is as it was; when the opposite side was empty
\* the call returns no trade and the book is left as it was.
C16_MarketNeverRests ==
    [][(PlacedStep /\ call'.order_type = "Market")
          => LET o  == Aggressor
                 b  == orderbooks[call'.symbol]
                 b2 == orderbooks'[call'.symbol]
             IN  /\ o.id \notin DOMAIN b2.orders
                 /\ o.id \notin QueuedIds(b2)
                 /\ OwnOf(b2, o) = OwnOf(b, o)
                 /\ DOMAIN OppositeOf(b, o) = {}
                       => /\ result'.trades = <<>>
                          /\ b2 = b]_vars

\* C16 witness: a market buy traded less than its quantity against a book
\* that has bids; what was left of it is nowhere in the book.
C16_Witness ==
    /\ Placed
    /\ call.order_type = "Market"
    /\ call.side = "Buy"
    /\ result.trades # <<>>
    /\ SumQty(result.trades) < call.quantity
    /\ LET b == orderbooks[call.symbol]
       IN  /\ DOMAIN b.bids # {}
           /\ DOMAIN b.asks = {}
           /\ result.trades[1].buy_order_id \notin (DOMAIN b.orders \cup QueuedIds(b))

\* C17: after every completed call a tick key is in bids or asks only with
\* a non-empty queue, and every queued order has quantity > 0; a level
\* whose orders were all filled completely by a place_order is gone after
\* that same step, and a maker filled completely is in no queue and not in
\* the orders index.
C17_LevelPresentIffNonEmpty ==
    [][/\ \A s \in DOMAIN orderbooks' :
              LevelsSound(orderbooks'[s].bids) /\ LevelsSound(orderbooks'[s].asks)
       /\ (PlacedStep /\ call'.quantity > 0)
             => LET o    == Aggressor
                    b    == orderbooks[call'.symbol]
                    b2   == orderbooks'[call'.symbol]
                    opp  == OppositeOf(b, o)
                    opp2 == OppositeOf(b2, o)
                IN  \A k \in DOMAIN opp :
                       /\ TakenFrom(result'.trades, opp[k], o.side) = SumQty(opp[k])
                             => k \notin DOMAIN opp2
                       /\ \A i \in 1..Len(opp[k]) :
                             TakenFrom(result'.trades, <<opp[k][i]>>, o.side)
                                   = opp[k][i].quantity
                                => opp[k][i].id \notin (QueuedIds(b2) \cup DOMAIN b2.orders)]_vars

\* C17 witness: an exact-quantity match: the aggressor and the only order
\* of a level filled each other completely; neither is in the book, and
\* the level's key is gone while the other side still has levels.
C17_Witness ==
    /\ Placed
    /\ Len(result.trades) = 1
    /\ result.trades[1].quantity = call.quantity
    /\ LET b   == orderbooks[call.symbol]
           t   == result.trades[1]
           opp == IF call.side = "Buy" THEN b.asks ELSE b.bids
           own == IF call.side = "Buy" THEN b.bids ELSE b.asks
       IN  /\ {t.buy_order_id, t.sell_order_id} \cap (QueuedIds(b) \cup DOMAIN b.orders) = {}
           /\ price_to_key(t.price) \notin DOMAIN opp
           /\ DOMAIN own # {}

\* C18: a Limit order of positive quantity that crosses nothing returns no
\* trade; the level of its own side at its own tick grows by exactly the
\* submitted quantity and by one order; the opposite side, every other
\* level of its own side, last_price and total_volume stay as they were.
C18_NonCrossingLimitRests ==
    [][(PlacedStep /\ call'.order_type = "Limit" /\ call'.quantity > 0
          /\ CrossesNothing(orderbooks[call'.symbol], Aggressor))
          => LET o    == Aggressor
                 b    == orderbooks[call'.symbol]
                 b2   == orderbooks'[call'.symbol]
                 own  == OwnOf(b, o)
                 own2 == OwnOf(b2, o)
                 key  == price_to_key(o.price)
             IN  /\ result'.trades = <<>>
                 /\ SumQty(LevelOf(own2, key)) = SumQty(LevelOf(own, key)) + o.quantity
                 /\ Len(LevelOf(own2, key)) = Len(LevelOf(own, key)) + 1
                 /\ DOMAIN own2 = DOMAIN own \cup {key}
                 /\ \A k \in DOMAIN own : k # key => own2[k] = own[k]
                 /\ OppositeOf(b2, o) = OppositeOf(b, o)
                 /\ b2.last_price = b.last_price
                 /\ b2.total_volume = b.total_volume]_vars

\* C18 witness: a limit sell priced above the best bid came to rest, with
\* no trade, behind an order already at its tick.
C18_Witness ==
    /\ Placed
    /\ call.order_type = "Limit"
    /\ call.side = "Sell"
    /\ result.trades = <<>>
    /\ LET b   == orderbooks[call.symbol]
           key == price_to_key(call.price)
       IN  /\ DOMAIN b.bids # {}
           /\ call.price > key_to_price(MaxKey(b.bids))
           /\ key \in DOMAIN b.asks
           /\ Len(b.asks[key]) = 2
           /\ b.asks[key][2].quantity = call.quantity
           /\ b.asks[key][2].price = call.price

\* C19: for each book, total_volume is the sum of the quantities of all
\* the trades the book has emitted, in whole units with the fraction of
\* the sum dropped, also when single fills are not whole units.
C19_VolumeIsSumOfFills ==
    \A s \in DOMAIN orderbooks :
        orderbooks[s].total_volume = emitted_qty[s] \div QtyScale

\* C20: price priority across levels.  In a place_order step the prices of
\* the returned trades never improve for the aggressor (they do not fall
\* for a Buy, do not rise for a Sell), and a trade at a level comes only
\* after every strictly better opposite level the call found has been
\* emptied: each order of such a level is the maker of an earlier trade of
\* the call, and the level is gone from the book.
C20_PricePriority ==
    [][(PlacedStep /\ call'.quantity > 0)
          => LET o    == Aggressor
                 opp  == OppositeOf(orderbooks[call'.symbol], o)
                 opp2 == OppositeOf(orderbooks'[call'.symbol], o)
                 tr   == result'.trades
                 Better(k1, k2) == IF o.side = "Buy" THEN k1 < k2 ELSE k1 > k2
             IN  /\ \A i \in 1..(Len(tr) - 1) :
                        IF o.side = "Buy" THEN tr[i].price <= tr[i + 1].price
                                          ELSE tr[i].price >= tr[i + 1].price
                 /\ \A i \in 1..Len(tr) :
                       \A sl \in MakerSlots(opp, MakerId(tr[i], o.side)) :
                          \A k \in DOMAIN opp :
                             Better(k, sl[1])
                                => /\ k \notin DOMAIN opp2
                                   /\ \A p \in 1..Len(opp[k]) :
                                         \E j \in 1..(i - 1) :
                                            MakerId(tr[j], o.side) = opp[k][p].id]_vars

\* C20 witness: one buy traded at two ask levels, the lower price first.
C20_Witness ==
    /\ Placed
    /\ call.side = "Buy"
    /\ Len(result.trades) = 2
    /\ result.trades[1].price < result.trades[2].price
    /\ result.trades[1].sell_order_id # result.trades[2].sell_order_id

\* C21: whether a limit order trades with an opposite level is decided on
\* tick keys alone.  In a place_order step with a Limit order of positive
\* quantity, every trade is with a maker of a level whose key is at or
\* below the order's own key (Buy) or at or above it (Sell); and an order
\* that comes to rest leaves no such level on the opposite side, so a
\* limit that quantizes to the tick of a resting opposite level matches it.
C21_EligibilityOnTickKeys ==
    [][(PlacedStep /\ call'.order_type = "Limit" /\ call'.quantity > 0)
          => LET o    == Aggressor
                 b2   == orderbooks'[call'.symbol]
                 opp  == OppositeOf(orderbooks[call'.symbol], o)
                 opp2 == OppositeOf(b2, o)
                 tr   == result'.trades
             IN  /\ \A i \in 1..Len(tr) :
                       \A sl \in MakerSlots(opp, MakerId(tr[i], o.side)) :
                          EligibleKey(o, sl[1])
                 /\ RestingQty(b2, o.id) > 0
                       => \A k \in DOMAIN opp2 : ~EligibleKey(o, k)]_vars

====
